---- MODULE Spec2Model ----
(***************************************************************************)
(* Model of the fetch_imap_emails plugin:                                  *)
(*   src/tools/fetch_imap_emails.py     FetchImapEmailsTool                *)
(*   src/provider/fetch_imap_emails.py  FetchImapEmailsProvider            *)
(* One invocation of _invoke is a run of the state machine: build the      *)
(* configuration, open the IMAP connection, fetch and delete the newest    *)
(* messages of INBOX, purge the trash folder, log out, emit one message.   *)
(*                                                                         *)
(* Text is a sequence of one-character strings, so that containment ("@"), *)
(* integer parsing and splitting are computed and not postulated.          *)
(***************************************************************************)
EXTENDS Integers, Sequences, FiniteSets, TLC

(***************************************************************************)
(* Bounds of the model.                                                    *)
(***************************************************************************)
\* largest number of messages the INBOX holds before the run
MaxMsgs == 3
\* largest number of commands of one run that the server answers with a
\* non-OK status or without payload while the client carries on
MaxFaults == 2
MaxParts == 2

(***************************************************************************)
(* Python values of the configuration sources: None, an int or a str.      *)
(***************************************************************************)
NoneV == [t |-> "none", i |-> 0, s |-> <<>>]
IntV(n) == [t |-> "int", i |-> n, s |-> <<>>]
StrV(x) == [t |-> "str", i |-> 0, s |-> x]

\* bool(v): None, 0 and "" are falsy
Truthy(v) ==
  CASE v.t = "none" -> FALSE
    [] v.t = "int" -> v.i # 0
    [] OTHER -> v.s # <<>>

\* the Python expression  a or b
PyOr(a, b) == IF Truthy(a) THEN a ELSE b

\* "@" in str(v)
HasAt(v) == v.t = "str" /\ \E k \in 1..Len(v.s) : v.s[k] = "@"

Digits == {"0", "1", "2", "3", "4", "5", "6", "7", "8", "9"}

DigitVal(c) ==
  CASE c = "0" -> 0 [] c = "1" -> 1 [] c = "2" -> 2 [] c = "3" -> 3
    [] c = "4" -> 4 [] c = "5" -> 5 [] c = "6" -> 6 [] c = "7" -> 7
    [] c = "8" -> 8 [] OTHER -> 9

RECURSIVE StripLeft(_)
StripLeft(s) == IF s # <<>> /\ Head(s) = " " THEN StripLeft(Tail(s)) ELSE s

RECURSIVE StripRight(_)
StripRight(s) ==
  IF s # <<>> /\ s[Len(s)] = " " THEN StripRight(SubSeq(s, 1, Len(s) - 1)) ELSE s

RECURSIVE DecimalValue(_)
DecimalValue(s) ==
  IF s = <<>> THEN 0 ELSE 10 * DecimalValue(SubSeq(s, 1, Len(s) - 1)) + DigitVal(s[Len(s)])

\* int(v): [ok, n]; ok = FALSE stands for the TypeError / ValueError of int()
PyInt(v) ==
  CASE v.t = "none" -> [ok |-> FALSE, n |-> 0]
    [] v.t = "int" -> [ok |-> TRUE, n |-> v.i]
    [] OTHER ->
       LET body == StripRight(StripLeft(v.s))
           signed == body # <<>> /\ Head(body) \in {"-", "+"}
           digits == IF signed THEN Tail(body) ELSE body
       IN IF digits # <<>> /\ \A k \in 1..Len(digits) : digits[k] \in Digits
          THEN [ok |-> TRUE,
                n |-> IF signed /\ Head(body) = "-" THEN 0 - DecimalValue(digits)
                      ELSE DecimalValue(digits)]
          ELSE [ok |-> FALSE, n |-> 0]

Fields == {"config_name", "email_account", "email_password", "imap_server",
           "imap_port", "recent_count"}

\* a source that sets no field: tool_parameters = {} or runtime.credentials = {}
NoFields == [f \in Fields |-> NoneV]

(***************************************************************************)
(* FetchImapEmailsProvider._validate_credentials: TRUE iff it returns      *)
(* without raising ToolProviderCredentialValidationError.                  *)
(***************************************************************************)
validate_credentials(credentials) ==
  /\ \A f \in Fields : Truthy(credentials[f])
  /\ HasAt(credentials["email_account"])
  /\ PyInt(credentials["imap_port"]).ok
  /\ PyInt(credentials["imap_port"]).n > 0
  /\ PyInt(credentials["recent_count"]).ok
  /\ PyInt(credentials["recent_count"]).n > 0

(***************************************************************************)
(* FetchImapEmailsTool._build_config.                                      *)
(***************************************************************************)
DefaultRecentCount == 5

\* lines 58-62: tool_parameters.get(f) or creds.get(f)
Merge(param, cred) == PyOr(param, cred)

\* line 63: ... or creds.get("recent_count") or 5
MergeRecentCount(param, cred) == PyOr(PyOr(param, cred), IntV(DefaultRecentCount))

NoConfig == [config_name |-> NoneV, email_account |-> NoneV, email_password |-> NoneV,
             imap_server |-> NoneV, imap_port |-> 0, recent_count |-> 0]

build_config(tool_parameters, creds) ==
  LET config_name == Merge(tool_parameters["config_name"], creds["config_name"])
      account == Merge(tool_parameters["email_account"], creds["email_account"])
      password == Merge(tool_parameters["email_password"], creds["email_password"])
      server == Merge(tool_parameters["imap_server"], creds["imap_server"])
      port == PyInt(Merge(tool_parameters["imap_port"], creds["imap_port"]))
      recent_count ==
        PyInt(MergeRecentCount(tool_parameters["recent_count"], creds["recent_count"]))
      Raise(msg) == [ok |-> FALSE, error |-> msg, config |-> NoConfig]
  IN IF ~Truthy(account) \/ ~HasAt(account)
     THEN Raise("Invalid or missing email_account")
     ELSE IF ~Truthy(password) THEN Raise("Missing email_password")
     ELSE IF ~Truthy(server) THEN Raise("Missing imap_server")
     ELSE IF ~port.ok \/ port.n <= 0 THEN Raise("imap_port must be a positive integer")
     ELSE IF ~recent_count.ok \/ recent_count.n <= 0
     THEN Raise("recent_count must be a positive integer")
     ELSE [ok |-> TRUE, error |-> "",
           config |-> [config_name |-> IF Truthy(config_name) THEN config_name ELSE NoneV,
                       email_account |-> account,
                       email_password |-> password,
                       imap_server |-> server,
                       imap_port |-> port.n,
                       recent_count |-> recent_count.n]]

(***************************************************************************)
(* Messages as email.message_from_bytes delivers them.  A header is absent *)
(* or a sequence of segments; a segment is unencoded (charset "") or a     *)
(* MIME encoded-word with a declared charset.  Bytes are one-character     *)
(* strings; BadByte is a byte no charset of the model can decode.          *)
(***************************************************************************)
BadByte == "\\xff"

KnownCharsets == {"utf-8", "us-ascii"}

AbsentHeader == [present |-> FALSE, segs |-> <<>>]
HeaderOf(segs) == [present |-> TRUE, segs |-> segs]

RECURSIVE DropBad(_)
DropBad(bytes) ==
  IF bytes = <<>> THEN <<>>
  ELSE IF Head(bytes) = BadByte THEN DropBad(Tail(bytes))
  ELSE <<Head(bytes)>> \o DropBad(Tail(bytes))

\* bytes.decode(charset, errors): LookupError for an unknown charset,
\* UnicodeDecodeError for an undecodable byte under errors="strict"
Decode(bytes, charset, errors) ==
  IF charset \notin KnownCharsets THEN [ok |-> FALSE, text |-> <<>>]
  ELSE IF errors = "strict" /\ \E k \in 1..Len(bytes) : bytes[k] = BadByte
  THEN [ok |-> FALSE, text |-> <<>>]
  ELSE [ok |-> TRUE, text |-> DropBad(bytes)]

\* one segment of decode_header, appended by make_header (Header.append
\* decodes with errors="strict"); unencoded text is taken as it is
DecodeSegment(seg) ==
  IF seg.charset = "" THEN [ok |-> TRUE, text |-> seg.bytes]
  ELSE Decode(seg.bytes, seg.charset, "strict")

RECURSIVE DecodeSegments(_)
DecodeSegments(segs) ==
  IF segs = <<>> THEN [ok |-> TRUE, text |-> <<>>]
  ELSE LET first == DecodeSegment(Head(segs))
           rest == DecodeSegments(Tail(segs))
       IN IF first.ok /\ rest.ok THEN [ok |-> TRUE, text |-> first.text \o rest.text]
          ELSE [ok |-> FALSE, text |-> <<>>]

\* FetchImapEmailsTool._decode_header_value
decode_header_value(value) ==
  IF ~value.present \/ value.segs = <<>> THEN [ok |-> TRUE, text |-> <<>>]
  ELSE DecodeSegments(value.segs)

\* FetchImapEmailsTool._decode_part
decode_part(part) ==
  LET charset == IF part.charset = "" THEN "utf-8" ELSE part.charset
  IN IF ~part.has_payload THEN [ok |-> TRUE, text |-> <<>>]
     ELSE Decode(part.payload, charset, "ignore")

\* index of the first part of the walk with this content type and no
\* Content-Disposition, 0 when there is none
FirstPart(parts, ctype) ==
  LET hits == {k \in 1..Len(parts) : parts[k].ctype = ctype /\ ~parts[k].disposition}
  IN IF hits = {} THEN 0 ELSE CHOOSE k \in hits : \A j \in hits : k <= j

\* FetchImapEmailsTool._extract_body; msg.parts is msg.walk(): the message
\* itself first, then its sub-parts in document order
extract_body(msg) ==
  IF msg.multipart
  THEN LET plain == FirstPart(msg.parts, "text/plain")
           html == FirstPart(msg.parts, "text/html")
       IN IF plain # 0 THEN decode_part(msg.parts[plain])
          ELSE IF html # 0 THEN decode_part(msg.parts[html])
          ELSE [ok |-> TRUE, text |-> <<>>]
  ELSE decode_part(msg.parts[1])

EmptyRecord == [subject |-> <<>>, from |-> <<>>, date |-> AbsentHeader, body |-> <<>>]

\* FetchImapEmailsTool._extract_email; ok = FALSE when a decode raises
extract_email(msg) ==
  LET subject == decode_header_value(msg.subject)
      from == decode_header_value(msg.from)
      body == extract_body(msg)
  IN IF subject.ok /\ from.ok /\ body.ok
     THEN [ok |-> TRUE,
           rec |-> [subject |-> subject.text, from |-> from.text,
                    date |-> msg.date, body |-> body.text]]
     ELSE [ok |-> FALSE, rec |-> EmptyRecord]

(***************************************************************************)
(* Trash folder resolution: TRASH_FOLDERS, _parse_mailbox_name,            *)
(* _find_trash_folder.  A non-ASCII character is one element of the text,  *)
(* written by its code point.                                              *)
(***************************************************************************)
TRASH_FOLDERS ==
  << <<"T", "r", "a", "s", "h">>,
     <<"D", "e", "l", "e", "t", "e", "d", " ", "I", "t", "e", "m", "s">>,
     <<"D", "e", "l", "e", "t", "e", "d", " ", "M", "e", "s", "s", "a", "g", "e", "s">>,
     <<"U+5783", "U+573E", "U+7BB1">>,
     <<"U+56DE", "U+6536", "U+7AD9">>,
     <<"B", "i", "n">>,
     <<"[", "G", "m", "a", "i", "l", "]", "/", "T", "r", "a", "s", "h">> >>

UpperCase == <<"A", "B", "C", "D", "E", "F", "G", "H", "I", "J", "K", "L", "M",
               "N", "O", "P", "Q", "R", "S", "T", "U", "V", "W", "X", "Y", "Z">>
LowerCase == <<"a", "b", "c", "d", "e", "f", "g", "h", "i", "j", "k", "l", "m",
               "n", "o", "p", "q", "r", "s", "t", "u", "v", "w", "x", "y", "z">>

LowerChar(c) ==
  IF \E k \in 1..26 : UpperCase[k] = c
  THEN LowerCase[CHOOSE k \in 1..26 : UpperCase[k] = c]
  ELSE c

\* str.lower()
Lower(s) == [k \in 1..Len(s) |-> LowerChar(s[k])]

Quote == "\""
WhiteSpace == {" ", "\t"}

\* str.split(sep) for a one-character separator: the pieces between
\* separators, empty pieces included
RECURSIVE SplitOn(_, _)
SplitOn(s, sep) ==
  IF \A k \in 1..Len(s) : s[k] # sep THEN <<s>>
  ELSE LET k == CHOOSE j \in 1..Len(s) : s[j] = sep /\ \A h \in 1..(j - 1) : s[h] # sep
       IN <<SubSeq(s, 1, k - 1)>> \o SplitOn(SubSeq(s, k + 1, Len(s)), sep)

\* str.split(): the maximal runs of non-whitespace characters
RECURSIVE Tokens(_)
Tokens(s) ==
  IF s = <<>> THEN <<>>
  ELSE IF Head(s) \in WhiteSpace THEN Tokens(Tail(s))
  ELSE LET stops == {j \in 1..Len(s) : s[j] \in WhiteSpace}
           k == IF stops = {} THEN Len(s) + 1
                ELSE CHOOSE j \in stops : \A h \in stops : j <= h
       IN <<SubSeq(s, 1, k - 1)>> \o Tokens(SubSeq(s, k, Len(s)))

\* str.strip("\"")
RECURSIVE StripQuotes(_)
StripQuotes(s) ==
  IF s # <<>> /\ Head(s) = Quote THEN StripQuotes(Tail(s))
  ELSE IF s # <<>> /\ s[Len(s)] = Quote THEN StripQuotes(SubSeq(s, 1, Len(s) - 1))
  ELSE s

\* a mailbox name or None
NoName == [found |-> FALSE, name |-> <<>>]
Name(s) == [found |-> TRUE, name |-> s]

\* FetchImapEmailsTool._parse_mailbox_name
parse_mailbox_name(mailbox_line) ==
  LET parts == SplitOn(mailbox_line, Quote)
      tokens == Tokens(mailbox_line)
  IN IF (\E k \in 1..Len(mailbox_line) : mailbox_line[k] = Quote) /\ Len(parts) >= 2
     THEN Name(parts[Len(parts) - 1])
     ELSE IF tokens # <<>> THEN Name(StripQuotes(tokens[Len(tokens)]))
     ELSE NoName

\* folder.lower() for folder in TRASH_FOLDERS
LoweredAliases == {Lower(TRASH_FOLDERS[k]) : k \in 1..Len(TRASH_FOLDERS)}

\* the test of lines 178-181 for one listing line
IsTrashLine(line) ==
  LET mailbox_name == parse_mailbox_name(line)
  IN /\ mailbox_name.found
     /\ mailbox_name.name # <<>>
     /\ Lower(mailbox_name.name) \in LoweredAliases

\* FetchImapEmailsTool._find_trash_folder; mailboxes is the data of LIST,
\* an entry is a line or None (has_line = FALSE), which the loop skips
find_trash_folder(mailboxes) ==
  LET hits == {k \in 1..Len(mailboxes) : mailboxes[k].has_line /\ IsTrashLine(mailboxes[k].line)}
  IN IF hits = {} THEN NoName
     ELSE parse_mailbox_name(mailboxes[CHOOSE k \in hits : \A j \in hits : k <= j].line)

(***************************************************************************)
(* Inputs of a run.                                                        *)
(***************************************************************************)
Text_cn == <<"c", "n">>
Text_c_at_x == <<"c", "@", "x">>
Text_cx == <<"c", "x">>
Text_cp == <<"c", "p">>
Text_ch == <<"c", "h">>
Text_abc == <<"a", "b", "c">>
Text_w == <<"w">>
Text_s_at_x == <<"s", "@", "x">>
Text_sx == <<"s", "x">>
Text_sp == <<"s", "p">>
Text_sh == <<"s", "h">>
Text_993 == <<"9", "9", "3">>
Text_2 == <<" ", "2">>

\* what a caller may pass as tool_parameters
ParamSpace ==
  [config_name : {NoneV, StrV(Text_cn)},
   email_account : {NoneV, StrV(<<>>), StrV(Text_c_at_x), StrV(Text_cx)},
   email_password : {NoneV, StrV(Text_cp)},
   imap_server : {NoneV, StrV(Text_ch)},
   imap_port : {NoneV, IntV(0), IntV(143), StrV(Text_abc)},
   recent_count : {NoneV, IntV(0), IntV(0 - 1), IntV(1), IntV(3)}]

\* what runtime.credentials may hold: nothing, or credentials the provider
\* accepted when they were saved
CredForms ==
  [config_name : {StrV(Text_w)},
   email_account : {StrV(Text_s_at_x), StrV(Text_sx)},
   email_password : {StrV(Text_sp)},
   imap_server : {StrV(Text_sh)},
   imap_port : {IntV(993), StrV(Text_993), IntV(0)},
   recent_count : {StrV(Text_2), NoneV}]

CredSpace == {NoFields} \cup {c \in CredForms : validate_credentials(c)}

\* a run that overrides nothing but recent_count
OnlyRecentCount(p) ==
  \A f \in Fields \ {"recent_count"} : p[f] = NoneV

(***************************************************************************)
(* Raw messages the server may deliver for a FETCH.                        *)
(***************************************************************************)
Plain(bytes) == HeaderOf(<<[charset |-> "", bytes |-> bytes]>>)
Encoded(charset, bytes) == HeaderOf(<<[charset |-> charset, bytes |-> bytes]>>)

Part(ctype, disposition, charset, bytes) ==
  [ctype |-> ctype, disposition |-> disposition, charset |-> charset,
   has_payload |-> TRUE, payload |-> bytes]

\* a multipart container: get_payload(decode=True) is None
Container == [ctype |-> "multipart/mixed", disposition |-> FALSE, charset |-> "",
              has_payload |-> FALSE, payload |-> <<>>]

PlainMsg ==
  [subject |-> Plain(<<"H", "i">>), from |-> Plain(<<"a", "@", "b">>),
   date |-> Plain(<<"M", "o", "n">>), multipart |-> FALSE,
   parts |-> <<Part("text/plain", FALSE, "", <<"o", "k", BadByte>>)>>]

\* no header at all and an HTML-only multipart body
BareMsg ==
  [subject |-> AbsentHeader, from |-> AbsentHeader, date |-> AbsentHeader,
   multipart |-> TRUE,
   parts |-> <<Container, Part("text/html", FALSE, "utf-8", <<"<", "p", ">">>)>>]

\* Subject: =?x-unknown?B?...?=
UnknownCharsetMsg ==
  [subject |-> Encoded("x-unknown", <<"H", "i">>), from |-> Plain(<<"a", "@", "b">>),
   date |-> Plain(<<"M", "o", "n">>), multipart |-> FALSE,
   parts |-> <<Part("text/plain", FALSE, "", <<"o", "k">>)>>]

\* a plain-text part that declares a charset Python does not know
GarbledBodyMsg ==
  [subject |-> Encoded("utf-8", <<"H", "i">>), from |-> AbsentHeader,
   date |-> AbsentHeader, multipart |-> TRUE,
   parts |-> <<Container, Part("text/plain", FALSE, "x-unknown", <<"o", "k">>)>>]

RawMessages == {PlainMsg, BareMsg, UnknownCharsetMsg, GarbledBodyMsg}

(***************************************************************************)
(* Folder listings the server may answer LIST with.                        *)
(***************************************************************************)
Line(s) == [has_line |-> TRUE, line |-> s]
NoLine == [has_line |-> FALSE, line |-> <<>>]

Line_Inbox == <<"(", ")", " ", Quote, "/", Quote, " ", Quote, "I", "N", "B", "O", "X", Quote>>
Line_Trash == <<"(", ")", " ", Quote, "/", Quote, " ", Quote, "T", "r", "a", "s", "h", Quote>>
Line_DeletedItems ==
  <<"(", ")", " ", Quote, "/", Quote, " ", Quote,
    "d", "e", "l", "e", "t", "e", "d", " ", "i", "t", "e", "m", "s", Quote>>
Line_BinUnquoted == <<"(", ")", " ", "N", "I", "L", " ", "B", "i", "n">>
\* the name unquoted after a quoted hierarchy delimiter
Line_TrashAfterDelimiter == <<"(", ")", " ", Quote, "/", Quote, " ", "T", "r", "a", "s", "h">>
Line_NoText == <<"L", "I", "S", "T", " ", "f", "a", "i", "l", "e", "d">>

Listings ==
  { <<Line(Line_Inbox), Line(Line_Trash)>>,
    <<Line(Line_Inbox)>>,
    <<Line(Line_Inbox), Line(Line_DeletedItems), Line(Line_Trash)>>,
    <<Line(Line_BinUnquoted)>>,
    <<Line(Line_Inbox), Line(Line_TrashAfterDelimiter)>>,
    <<NoLine>>,
    <<>> }

(***************************************************************************)
(* State.                                                                  *)
(***************************************************************************)
VARIABLES
  pc,               \* position of the invocation in _invoke
  tool_parameters,  \* argument of _invoke
  creds,            \* self.runtime.credentials
  config,           \* the ImapConfig of line 39
  inbox0,           \* server: identifiers of INBOX before the run
  inbox,            \* server: identifiers INBOX holds
  flagged,          \* server: identifiers of INBOX carrying \Deleted
  trash,            \* server: number of messages in the trash folder
  trashFlagged,     \* server: the messages of the trash folder carry \Deleted
  selected,         \* server: the mailbox selected on the connection
  served,           \* server: raw messages a FETCH may deliver
  faultBudget,      \* server: how many commands it may answer non-OK
  faults,           \* commands answered non-OK so far without an exception
  state,            \* imaplib: mail.state
  mail_ids,         \* line 105/107
  target_ids,       \* line 108
  idx,              \* position of the for loop of line 110 in target_ids
  emails,           \* line 98
  record_ids,       \* for each record of emails, the identifier it was fetched for
  deleted_count,    \* line 97
  mailboxes,        \* line 160: the data of LIST
  trash_folder,     \* line 161
  trash_cleared,    \* line 99
  exc,              \* the exception in flight, "" when there is none
  cmds,             \* commands sent on the wire, with the server's answer
  out               \* messages yielded by _invoke

vars == <<pc, tool_parameters, creds, config, inbox0, inbox, flagged, trash,
          trashFlagged, selected, served, faultBudget, faults, state, mail_ids,
          target_ids, idx, emails, record_ids, deleted_count, mailboxes,
          trash_folder, trash_cleared, exc, cmds, out>>

inputVars == <<tool_parameters, creds, inbox0, served, faultBudget>>
serverVars == <<inbox, flagged, trash, trashFlagged, selected>>
localVars == <<mail_ids, target_ids, idx, emails, record_ids, deleted_count,
               mailboxes, trash_folder, trash_cleared>>

\* an identifier that names no message: a token of the text of a NO answer
JunkId == 0
TrashSizes == {0, 2}

Init ==
  /\ pc = "build"
  /\ tool_parameters \in ParamSpace
  /\ creds \in CredSpace
  /\ \/ /\ faultBudget = 0
        /\ served = {PlainMsg}
        /\ inbox0 = 1..1
        /\ trash = 0
     \/ /\ OnlyRecentCount(tool_parameters)
        /\ faultBudget = MaxFaults
        /\ served = RawMessages
        /\ inbox0 \in {1..m : m \in 0..MaxMsgs}
        /\ trash \in TrashSizes
  /\ config = NoConfig
  /\ inbox = inbox0
  /\ flagged = {}
  /\ trashFlagged = FALSE
  /\ selected = ""
  /\ faults = 0
  /\ state = "NONE"
  /\ mail_ids = <<>>
  /\ target_ids = <<>>
  /\ idx = 0
  /\ emails = <<>>
  /\ record_ids = <<>>
  /\ deleted_count = 0
  /\ mailboxes = <<>>
  /\ trash_folder = NoName
  /\ trash_cleared = FALSE
  /\ exc = ""
  /\ cmds = <<>>
  /\ out = <<>>

(***************************************************************************)
(* The server's answers.  "OK" carries the payload, "EMPTY" is an OK       *)
(* answer without payload ([None]), "NO" is a NO status, which imaplib     *)
(* returns to the caller, "BAD" is a BAD status or a dropped connection,   *)
(* which imaplib raises.                                                   *)
(***************************************************************************)
CanFault == faults < faultBudget
CanRaise == faultBudget > 0

\* box is the mailbox the server has selected when the command arrives
Issue(name, id, wild, res) ==
  cmds' = Append(cmds, [name |-> name, id |-> id, wild |-> wild, res |-> res,
                        box |-> selected])

\* the exception leaves _fetch_and_delete_emails without the finally clause
RaiseWithoutFinally(msg) == pc' = "emit_error" /\ exc' = msg

\* an exception inside the try of line 100: the finally of line 123 runs
RaiseInTry(msg) == pc' = "logout" /\ exc' = msg

\* imaplib._command: a command not allowed in mail.state raises before it
\* is sent
AllowedInState(name) ==
  CASE name \in {"SEARCH", "FETCH", "STORE", "EXPUNGE"} -> state = "SELECTED"
    [] name \in {"SELECT", "LIST"} -> state \in {"AUTH", "SELECTED"}
    [] name = "LOGIN" -> state = "NONAUTH"
    [] OTHER -> TRUE

\* line 39
BuildConfig ==
  /\ pc = "build"
  /\ LET r == build_config(tool_parameters, creds)
     IN IF r.ok
        THEN config' = r.config /\ pc' = "connect" /\ exc' = exc
        ELSE config' = config /\ pc' = "emit_error" /\ exc' = r.error
  /\ UNCHANGED <<inputVars, serverVars, localVars, faults, state, cmds, out>>

\* lines 96-99: imaplib.IMAP4_SSL(host, port); outside the try
Connect ==
  /\ pc = "connect"
  /\ \/ /\ Issue("CONNECT", 0, FALSE, "OK")
        /\ state' = "NONAUTH"
        /\ pc' = "login"
        /\ exc' = exc
     \/ /\ CanRaise
        /\ Issue("CONNECT", 0, FALSE, "BAD")
        /\ state' = state
        /\ pc' = "emit_error"
        /\ exc' = "connect failed"
  /\ deleted_count' = 0
  /\ emails' = <<>>
  /\ trash_cleared' = FALSE
  /\ UNCHANGED <<inputVars, serverVars, config, faults, mail_ids, target_ids, idx,
                 record_ids, mailboxes, trash_folder, out>>

\* line 101: login raises on every answer but OK
Login ==
  /\ pc = "login"
  /\ \/ /\ Issue("LOGIN", 0, FALSE, "OK")
        /\ state' = "AUTH"
        /\ pc' = "select_inbox"
        /\ exc' = exc
     \/ /\ CanRaise
        /\ \E res \in {"NO", "BAD"} : Issue("LOGIN", 0, FALSE, res)
        /\ state' = state
        /\ RaiseInTry("login failed")
  /\ UNCHANGED <<inputVars, serverVars, localVars, config, faults, out>>

\* the slice taken from the front of the search result: mail_ids[:recent_count]
FirstK(ids, k) == SubSeq(ids, 1, IF Len(ids) > k THEN k ELSE Len(ids))

\* mail_ids[-recent_count:] reversed (line 108)
LastK(ids, k) == SubSeq(ids, IF Len(ids) > k THEN Len(ids) - k + 1 ELSE 1, Len(ids))
Reversed(ids) == [j \in 1..Len(ids) |-> ids[Len(ids) + 1 - j]]
TargetIds(ids, recent_count) == Reversed(LastK(ids, recent_count))

\* the identifiers of a mailbox in ascending order, as SEARCH ALL lists them
RECURSIVE Ascending(_)
Ascending(ids) ==
  IF ids = {} THEN <<>>
  ELSE LET top == CHOOSE a \in ids : \A b \in ids : b <= a
       IN Append(Ascending(ids \ {top}), top)

\* the INBOX expunge issued without the guard of line 120
ExpungeAlways(targets) == TRUE

\* line 120: the guard of the INBOX expunge
ExpungeNeeded(targets) == targets # <<>>

\* the INBOX expunge issued as soon as one identifier was stored
LoopAtEagerExpunge(targets, i) ==
  IF i > 1 THEN "expunge_inbox"
  ELSE IF i <= Len(targets) THEN "fetch"
  ELSE "list"

\* where the for loop of line 110 goes with position i
LoopAt(targets, i) ==
  IF i <= Len(targets) THEN "fetch"
  ELSE IF ExpungeNeeded(targets) THEN "expunge_inbox"
  ELSE "list"

\* server: EXPUNGE of the selected mailbox
ServerExpunge ==
  /\ inbox' = IF selected = "INBOX" THEN inbox \ flagged ELSE inbox
  /\ flagged' = IF selected = "INBOX" THEN {} ELSE flagged
  /\ trash' = IF selected = "TRASH" /\ trashFlagged THEN 0 ELSE trash
  /\ trashFlagged' = IF selected = "TRASH" THEN FALSE ELSE trashFlagged

\* server: STORE 1:* +FLAGS \Deleted on the selected mailbox
ServerStoreAll ==
  /\ flagged' = IF selected = "INBOX" THEN inbox ELSE flagged
  /\ trashFlagged' = IF selected = "TRASH" THEN TRUE ELSE trashFlagged

\* line 102: the status of select is not looked at
SelectInbox ==
  /\ pc = "select_inbox"
  /\ \/ /\ Issue("SELECT", 0, FALSE, "OK")
        /\ state' = "SELECTED"
        /\ selected' = "INBOX"
        /\ pc' = "search"
        /\ UNCHANGED <<exc, faults>>
     \/ /\ CanFault
        /\ Issue("SELECT", 0, FALSE, "NO")
        /\ state' = "AUTH"
        /\ selected' = ""
        /\ pc' = "search"
        /\ faults' = faults + 1
        /\ exc' = exc
     \/ /\ CanRaise
        /\ Issue("SELECT", 0, FALSE, "BAD")
        /\ RaiseInTry("select failed")
        /\ UNCHANGED <<state, selected, faults>>
  /\ UNCHANGED <<inputVars, inbox, flagged, trash, trashFlagged, localVars, config, out>>

\* lines 103-108
Search ==
  /\ pc = "search"
  /\ \/ /\ ~AllowedInState("SEARCH")
        /\ RaiseInTry("command SEARCH illegal in state")
        /\ UNCHANGED <<cmds, mail_ids, target_ids, idx, faults>>
     \/ /\ AllowedInState("SEARCH")
        /\ \/ /\ \E res \in {"OK"} \cup (IF inbox = {} THEN {"EMPTY"} ELSE {}) :
                   Issue("SEARCH", 0, FALSE, res)
              /\ mail_ids' = Ascending(inbox)
              /\ faults' = faults
           \/ /\ CanFault
              /\ Issue("SEARCH", 0, FALSE, "NO")
              /\ mail_ids' = <<JunkId>>
              /\ faults' = faults + 1
        /\ target_ids' = TargetIds(mail_ids', config.recent_count)
        /\ idx' = 1
        /\ pc' = LoopAt(target_ids', 1)
        /\ exc' = exc
     \/ /\ AllowedInState("SEARCH")
        /\ CanRaise
        /\ Issue("SEARCH", 0, FALSE, "BAD")
        /\ RaiseInTry("search failed")
        /\ UNCHANGED <<mail_ids, target_ids, idx, faults>>
  /\ UNCHANGED <<inputVars, serverVars, config, state, emails, record_ids,
                 deleted_count, mailboxes, trash_folder, trash_cleared, out>>

\* lines 111-116: fetch one identifier and append its record
Fetch ==
  /\ pc = "fetch"
  /\ LET mail_id == target_ids[idx]
     IN \/ /\ mail_id \in inbox
           /\ Issue("FETCH", mail_id, FALSE, "OK")
           /\ \E msg \in served :
                LET r == extract_email(msg)
                IN IF r.ok
                   THEN /\ emails' = Append(emails, r.rec)
                        /\ record_ids' = Append(record_ids, mail_id)
                        /\ pc' = "store"
                        /\ exc' = exc
                   ELSE /\ RaiseInTry("unknown encoding")
                        /\ UNCHANGED <<emails, record_ids>>
           /\ faults' = faults
        \/ /\ CanFault
           /\ \E res \in {"EMPTY", "NO"} : Issue("FETCH", mail_id, FALSE, res)
           /\ faults' = faults + 1
           /\ pc' = "store"
           /\ UNCHANGED <<emails, record_ids, exc>>
        \/ /\ CanRaise
           /\ Issue("FETCH", mail_id, FALSE, "BAD")
           /\ RaiseInTry("fetch failed")
           /\ UNCHANGED <<emails, record_ids, faults>>
  /\ UNCHANGED <<inputVars, serverVars, config, state, mail_ids, target_ids, idx,
                 deleted_count, mailboxes, trash_folder, trash_cleared, out>>

\* lines 117-118 and the step of the loop
Store ==
  /\ pc = "store"
  /\ LET mail_id == target_ids[idx]
     IN \/ /\ mail_id \in inbox
           /\ Issue("STORE", mail_id, FALSE, "OK")
           /\ flagged' = flagged \cup {mail_id}
           /\ deleted_count' = deleted_count + 1
           /\ idx' = idx + 1
           /\ pc' = LoopAt(target_ids, idx + 1)
           /\ UNCHANGED <<faults, exc>>
        \/ /\ CanFault
           /\ Issue("STORE", mail_id, FALSE, "NO")
           /\ faults' = faults + 1
           /\ deleted_count' = deleted_count + 1
           /\ idx' = idx + 1
           /\ pc' = LoopAt(target_ids, idx + 1)
           /\ UNCHANGED <<flagged, exc>>
        \/ /\ CanRaise
           /\ Issue("STORE", mail_id, FALSE, "BAD")
           /\ RaiseInTry("store failed")
           /\ UNCHANGED <<flagged, deleted_count, idx, faults>>
  /\ UNCHANGED <<inputVars, inbox, trash, trashFlagged, selected, config, state,
                 mail_ids, target_ids, emails, record_ids, mailboxes, trash_folder,
                 trash_cleared, out>>

\* line 121
ExpungeInbox ==
  /\ pc = "expunge_inbox"
  /\ \/ /\ Issue("EXPUNGE", 0, FALSE, "OK")
        /\ ServerExpunge
        /\ pc' = "list"
        /\ UNCHANGED <<faults, exc>>
     \/ /\ CanFault
        /\ Issue("EXPUNGE", 0, FALSE, "NO")
        /\ faults' = faults + 1
        /\ pc' = "list"
        /\ UNCHANGED <<inbox, flagged, trash, trashFlagged, exc>>
     \/ /\ CanRaise
        /\ Issue("EXPUNGE", 0, FALSE, "BAD")
        /\ RaiseInTry("expunge failed")
        /\ UNCHANGED <<inbox, flagged, trash, trashFlagged, faults>>
  /\ UNCHANGED <<inputVars, selected, localVars, config, state, out>>

\* the trash stage entered without the select of line 164
AfterListNoSelect(found) ==
  IF found.found /\ found.name # <<>> THEN "store_trash" ELSE "logout"

\* the purge skipped although a trash folder was resolved
AfterListSkipPurge(found) == "logout"

\* the purge attempted although no trash folder was resolved
AfterListAlwaysPurge(found) == "select_trash"

\* lines 162-164: _empty_trash returns False when no trash folder was found
AfterList(found) ==
  IF found.found /\ found.name # <<>> THEN "select_trash" ELSE "logout"

\* lines 160-163: LIST and the resolution of the trash folder; without a
\* trash folder _empty_trash returns False and line 122 stores it
List ==
  /\ pc = "list"
  /\ \/ /\ ~AllowedInState("LIST")
        /\ RaiseInTry("command LIST illegal in state")
        /\ UNCHANGED <<cmds, mailboxes, trash_folder, trash_cleared, faults>>
     \/ /\ AllowedInState("LIST")
        /\ \E data \in Listings \cup (IF CanFault THEN {<<Line(Line_NoText)>>} ELSE {}) :
             LET no == data = <<Line(Line_NoText)>>
                 found == find_trash_folder(data)
             IN /\ Issue("LIST", 0, FALSE, IF no THEN "NO" ELSE "OK")
                /\ faults' = IF no THEN faults + 1 ELSE faults
                /\ mailboxes' = data
                /\ trash_folder' = found
                /\ pc' = AfterList(found)
        /\ trash_cleared' = FALSE
        /\ exc' = exc
     \/ /\ AllowedInState("LIST")
        /\ CanRaise
        /\ Issue("LIST", 0, FALSE, "BAD")
        /\ RaiseInTry("list failed")
        /\ UNCHANGED <<mailboxes, trash_folder, trash_cleared, faults>>
  /\ UNCHANGED <<inputVars, serverVars, config, state, mail_ids, target_ids, idx,
                 emails, record_ids, deleted_count, out>>

\* line 164: the status of select is not looked at
SelectTrash ==
  /\ pc = "select_trash"
  /\ \/ /\ Issue("SELECT", 0, FALSE, "OK")
        /\ state' = "SELECTED"
        /\ selected' = "TRASH"
        /\ pc' = "store_trash"
        /\ UNCHANGED <<exc, faults>>
     \/ /\ CanFault
        /\ Issue("SELECT", 0, FALSE, "NO")
        /\ state' = "AUTH"
        /\ selected' = ""
        /\ pc' = "store_trash"
        /\ faults' = faults + 1
        /\ exc' = exc
     \/ /\ CanRaise
        /\ Issue("SELECT", 0, FALSE, "BAD")
        /\ RaiseInTry("select failed")
        /\ UNCHANGED <<state, selected, faults>>
  /\ UNCHANGED <<inputVars, inbox, flagged, trash, trashFlagged, localVars, config, out>>

\* line 165
StoreTrash ==
  /\ pc = "store_trash"
  /\ \/ /\ ~AllowedInState("STORE")
        /\ RaiseInTry("command STORE illegal in state")
        /\ UNCHANGED <<cmds, flagged, trashFlagged, faults>>
     \/ /\ AllowedInState("STORE")
        /\ Issue("STORE", 0, TRUE, "OK")
        /\ ServerStoreAll
        /\ pc' = "expunge_trash"
        /\ UNCHANGED <<faults, exc>>
     \/ /\ AllowedInState("STORE")
        /\ CanFault
        /\ Issue("STORE", 0, TRUE, "NO")
        /\ faults' = faults + 1
        /\ pc' = "expunge_trash"
        /\ UNCHANGED <<flagged, trashFlagged, exc>>
     \/ /\ AllowedInState("STORE")
        /\ CanRaise
        /\ Issue("STORE", 0, TRUE, "BAD")
        /\ RaiseInTry("store failed")
        /\ UNCHANGED <<flagged, trashFlagged, faults>>
  /\ UNCHANGED <<inputVars, inbox, trash, selected, localVars, config, state, out>>

\* lines 166-167 and the assignment of line 122
ExpungeTrash ==
  /\ pc = "expunge_trash"
  /\ \/ /\ Issue("EXPUNGE", 0, FALSE, "OK")
        /\ ServerExpunge
        /\ trash_cleared' = TRUE
        /\ pc' = "logout"
        /\ UNCHANGED <<faults, exc>>
     \/ /\ CanFault
        /\ Issue("EXPUNGE", 0, FALSE, "NO")
        /\ faults' = faults + 1
        /\ trash_cleared' = TRUE
        /\ pc' = "logout"
        /\ UNCHANGED <<inbox, flagged, trash, trashFlagged, exc>>
     \/ /\ CanRaise
        /\ Issue("EXPUNGE", 0, FALSE, "BAD")
        /\ RaiseInTry("expunge failed")
        /\ UNCHANGED <<inbox, flagged, trash, trashFlagged, trash_cleared, faults>>
  /\ UNCHANGED <<inputVars, selected, config, state, mail_ids, target_ids, idx,
                 emails, record_ids, deleted_count, mailboxes, trash_folder, out>>

\* lines 123-126: the finally clause; an exception of logout replaces the
\* one in flight
Logout ==
  /\ pc = "logout"
  /\ state' = "LOGOUT"
  /\ \/ /\ Issue("LOGOUT", 0, FALSE, "OK")
        /\ pc' = IF exc # "" THEN "emit_error" ELSE "emit_success"
        /\ exc' = exc
     \/ /\ CanRaise
        /\ Issue("LOGOUT", 0, FALSE, "BAD")
        /\ pc' = "emit_error"
        /\ exc' = "logout failed"
  /\ UNCHANGED <<inputVars, serverVars, localVars, config, faults, out>>

\* lines 41-52
EmitSuccess ==
  /\ pc = "emit_success"
  /\ out' = Append(out, [type |-> "success", error |-> "", config |-> config,
                         emails |-> emails, deleted_count |-> deleted_count,
                         trash_cleared |-> trash_cleared])
  /\ pc' = "done"
  /\ UNCHANGED <<inputVars, serverVars, localVars, config, faults, state, exc, cmds>>

\* the exception escapes _invoke and nothing is yielded
EmitErrorLost ==
  /\ pc = "emit_error"
  /\ pc' = "done"
  /\ UNCHANGED <<inputVars, serverVars, localVars, config, faults, state, exc, cmds, out>>

\* lines 53-54
EmitError ==
  /\ pc = "emit_error"
  /\ out' = Append(out, [type |-> "error", error |-> exc, config |-> NoConfig,
                         emails |-> <<>>, deleted_count |-> 0,
                         trash_cleared |-> FALSE])
  /\ pc' = "done"
  /\ UNCHANGED <<inputVars, serverVars, localVars, config, faults, state, exc, cmds>>

Next ==
  \/ BuildConfig
  \/ Connect
  \/ Login
  \/ SelectInbox
  \/ Search
  \/ Fetch
  \/ Store
  \/ ExpungeInbox
  \/ List
  \/ SelectTrash
  \/ StoreTrash
  \/ ExpungeTrash
  \/ Logout
  \/ EmitSuccess
  \/ EmitError

Spec == Init /\ [][Next]_vars

(***************************************************************************)
(* Vocabulary of the properties.                                           *)
(***************************************************************************)
Range(seq) == {seq[k] : k \in 1..Len(seq)}
Issued(name) == \E k \in 1..Len(cmds) : cmds[k].name = name
Connected == \E k \in 1..Len(cmds) : cmds[k].name = "CONNECT" /\ cmds[k].res = "OK"
Returned == pc \in {"emit_success", "emit_error", "done"}
Done == pc = "done"
Succeeded == Done /\ Len(out) = 1 /\ out[1].type = "success"
Failed == Done /\ Len(out) = 1 /\ out[1].type = "error"
\* every command of the run, the connection included, was answered OK with
\* its payload
AllAnsweredOK == Connected /\ \A k \in 1..Len(cmds) : cmds[k].res = "OK"
M == Cardinality(inbox0)
K == config.recent_count
\* the search was answered and listed no identifier
SearchedEmpty ==
  /\ mail_ids = <<>>
  /\ \E k \in 1..Len(cmds) : cmds[k].name = "SEARCH" /\ cmds[k].res \in {"OK", "EMPTY"}

(***************************************************************************)
(* C1: once the connection exists, a LOGOUT is sent before control returns *)
(* to _invoke, whether the run completed, the login failed or a later      *)
(* command or normalization raised; no command follows the LOGOUT.         *)
(***************************************************************************)
C1_LogoutOnEveryExit ==
  /\ (Returned /\ Connected) => Issued("LOGOUT")
  /\ \A k \in 1..Len(cmds) : cmds[k].name = "LOGOUT" => k = Len(cmds)

\* a run whose trash expunge raised after the INBOX was expunged, logged out
C1_Witness ==
  /\ Done
  /\ exc = "expunge failed"
  /\ cmds[Len(cmds)].name = "LOGOUT"
  /\ \E k \in 1..Len(cmds) : cmds[k].name = "EXPUNGE" /\ cmds[k].box = "TRASH"
                              /\ cmds[k].res = "BAD"

(***************************************************************************)
(* C2: with a valid configuration, recent_count = K and M >= K messages in *)
(* INBOX, a run on a server that answers every command returns exactly K   *)
(* records, for the last K identifiers of the search newest first, and     *)
(* leaves M - K messages in INBOX.                                         *)
(***************************************************************************)
C2_NewestKReturnedAndDeleted ==
  (Done /\ AllAnsweredOK /\ M >= K) =>
    /\ Succeeded
    /\ Len(out[1].emails) = K
    /\ record_ids = TargetIds(Ascending(inbox0), K)
    /\ Cardinality(inbox) = M - K

(***************************************************************************)
(* C3: with 1 <= M < K, a run on a server that answers every command       *)
(* completes without error, returns exactly M records and empties INBOX.   *)
(***************************************************************************)
C3_FewerThanKAllReturnedAndDeleted ==
  (Done /\ AllAnsweredOK /\ M >= 1 /\ M < K) =>
    /\ out[1].type = "success"
    /\ Len(out[1].emails) = M
    /\ inbox = {}

(***************************************************************************)
(* C4: when the search lists no identifier, no FETCH, no STORE and no      *)
(* EXPUNGE is sent for INBOX, the message list stays empty and             *)
(* deleted_count stays 0, no error is raised and the run goes on to the    *)
(* folder listing; a success response reports the empty list and 0.        *)
(***************************************************************************)
C4_EmptySearchSkipsDeletion ==
  SearchedEmpty =>
    /\ ~Issued("FETCH")
    /\ \A k \in 1..Len(cmds) :
         /\ ~(cmds[k].name = "STORE" /\ ~cmds[k].wild)
         /\ ~(cmds[k].name = "EXPUNGE" /\ cmds[k].box = "INBOX")
    /\ emails = <<>> /\ deleted_count = 0
    /\ ~Issued("LIST") => (pc = "list" /\ exc = "")
    /\ Succeeded => (out[1].emails = <<>> /\ out[1].deleted_count = 0)

\* a successful run over an empty INBOX that purged the trash folder
C4_Witness ==
  /\ Succeeded
  /\ SearchedEmpty
  /\ inbox0 = {}
  /\ out[1].trash_cleared

(***************************************************************************)
(* C5: an identifier gets \Deleted in INBOX only after a FETCH of that     *)
(* identifier was answered OK with a message and its record was appended;  *)
(* the STORE directly follows that FETCH.                                  *)
(***************************************************************************)
C5_StoreOnlyAfterSuccessfulFetch ==
  \A k \in 1..Len(cmds) :
    (cmds[k].name = "STORE" /\ ~cmds[k].wild /\ cmds[k].res = "OK") =>
      /\ k > 1
      /\ cmds[k - 1].name = "FETCH"
      /\ cmds[k - 1].id = cmds[k].id
      /\ cmds[k - 1].res = "OK"
      /\ cmds[k].id \in Range(record_ids)

(***************************************************************************)
(* C6: a message whose header or body cannot be decoded does not fail the  *)
(* invocation: every FETCH answered with a message yields a record and no  *)
(* decoding error is raised.                                               *)
(***************************************************************************)
C6_NormalizationNeverFailsTheRun ==
  /\ exc # "unknown encoding"
  /\ \A k \in 1..Len(cmds) :
       (cmds[k].name = "FETCH" /\ cmds[k].res = "OK") => cmds[k].id \in Range(record_ids)

(***************************************************************************)
(* C7: a command that raised or was answered with a non-OK status is       *)
(* followed by no command but LOGOUT, is not sent again, and the           *)
(* invocation ends with an error record.                                   *)
(***************************************************************************)
C7_FailedCommandAbortsTheRun ==
  \A k \in 1..Len(cmds) :
    cmds[k].res \in {"NO", "BAD"} =>
      /\ \A j \in (k + 1)..Len(cmds) : cmds[j].name = "LOGOUT"
      /\ pc # "emit_success"
      /\ Done => out[1].type = "error"

(***************************************************************************)
(* C8: a caller-supplied imap_port of 0 or "abc", a caller-supplied        *)
(* recent_count of -1 or a caller-supplied account without "@" ends the    *)
(* invocation with a validation error before any connection attempt.       *)
(***************************************************************************)
OffendingSupplied ==
  \/ tool_parameters["imap_port"] \in {IntV(0), StrV(Text_abc)}
  \/ tool_parameters["recent_count"] = IntV(0 - 1)
  \/ (Truthy(tool_parameters["email_account"]) /\ ~HasAt(tool_parameters["email_account"]))

C8_OffendingValueRejectedBeforeConnect ==
  OffendingSupplied =>
    /\ pc \in {"build", "emit_error", "done"}
    /\ cmds = <<>>
    /\ Done => out[1].type = "error"

(***************************************************************************)
(* C9: an invocation that has ended has yielded exactly one message, a     *)
(* success response with the configuration, the records, deleted_count and *)
(* trash_cleared, or an error record with the failure text; before its end *)
(* it has yielded none.                                                    *)
(***************************************************************************)
C9_ExactlyOneMessage ==
  /\ Done => Len(out) = 1
  /\ ~Done => Len(out) = 0
  /\ Len(out) = 1 =>
       \/ /\ out[1].type = "error"
          /\ out[1].error = exc
          /\ exc # ""
       \/ /\ out[1].type = "success"
          /\ exc = ""
          /\ out[1].config = config
          /\ out[1].emails = emails
          /\ out[1].deleted_count = deleted_count
          /\ out[1].trash_cleared = trash_cleared

\* an invocation that was rejected by _build_config and one error record
C9_Witness ==
  /\ Done
  /\ cmds = <<>>
  /\ Len(out) = 1
  /\ out[1].error = "imap_port must be a positive integer"

(***************************************************************************)
(* C10: every field of the configuration holds the caller's value when the *)
(* caller supplied one, and the stored value otherwise; recent_count is 5  *)
(* exactly when neither source sets it.  A blank text counts as not        *)
(* supplied.                                                               *)
(***************************************************************************)
Supplied(v) == v \notin {NoneV, StrV(<<>>)}

\* the value of a source as ImapConfig holds it
AsConfigValue(f, v) == IF f \in {"imap_port", "recent_count"} THEN PyInt(v).n ELSE v

C10_CallerValueTakesPrecedence ==
  config # NoConfig =>
    /\ \A f \in Fields :
         /\ Supplied(tool_parameters[f]) => config[f] = AsConfigValue(f, tool_parameters[f])
         /\ (~Supplied(tool_parameters[f]) /\ Supplied(creds[f])) =>
              config[f] = AsConfigValue(f, creds[f])
    /\ (config.recent_count = DefaultRecentCount) <=>
         (~Supplied(tool_parameters["recent_count"]) /\ ~Supplied(creds["recent_count"]))

(***************************************************************************)
(* C11: in a success response deleted_count is the number of messages the  *)
(* run removed from INBOX.                                                 *)
(***************************************************************************)
C11_DeletedCountIsRemovedCount ==
  Succeeded => out[1].deleted_count = Cardinality(inbox0 \ inbox)

(***************************************************************************)
(* C12: when LIST or a command of the trash purge fails after the INBOX    *)
(* expunge was done, the invocation ends with an error record that carries *)
(* no fetched record, the expunged messages stay removed and nothing but   *)
(* LOGOUT is sent after the failure.                                       *)
(***************************************************************************)
FailedAfterInboxExpunge(k) ==
  /\ cmds[k].res \in {"NO", "BAD"}
  /\ cmds[k].name # "LOGOUT"
  /\ \E e \in 1..(k - 1) :
       cmds[e].name = "EXPUNGE" /\ cmds[e].box = "INBOX" /\ cmds[e].res = "OK"

C12_NoRollbackNoPartialResult ==
  \A k \in 1..Len(cmds) :
    FailedAfterInboxExpunge(k) =>
      /\ pc # "emit_success"
      /\ \A j \in (k + 1)..Len(cmds) : cmds[j].name = "LOGOUT"
      /\ \A j \in 1..Len(cmds) :
           (cmds[j].name = "STORE" /\ ~cmds[j].wild /\ cmds[j].res = "OK") =>
             cmds[j].id \notin inbox
      /\ Done => (out[1].type = "error" /\ out[1].emails = <<>>)

(***************************************************************************)
(* C13: when LIST was answered and no line of its data yields an alias of  *)
(* the trash folder (an empty or missing listing included), no SELECT, no  *)
(* STORE and no EXPUNGE follows the LIST, nothing is raised by the trash   *)
(* stage, and a success response reports trash_cleared = FALSE.            *)
(***************************************************************************)
ListPosition == CHOOSE k \in 1..Len(cmds) : cmds[k].name = "LIST"

ListedWithoutAlias ==
  /\ \E k \in 1..Len(cmds) : cmds[k].name = "LIST" /\ cmds[k].res \in {"OK", "NO"}
  /\ \A k \in 1..Len(mailboxes) : ~(mailboxes[k].has_line /\ IsTrashLine(mailboxes[k].line))

C13_NoAliasNoPurge ==
  ListedWithoutAlias =>
    /\ \A j \in (ListPosition + 1)..Len(cmds) : cmds[j].name = "LOGOUT"
    /\ \A j \in 1..Len(cmds) : ~cmds[j].wild
    /\ ~trash_cleared
    /\ exc \in {"", "logout failed"}
    /\ pc \in {"logout", "emit_success", "emit_error", "done"}
    /\ Succeeded => ~out[1].trash_cleared
    /\ (Done /\ cmds[Len(cmds)].res = "OK") => Succeeded

\* a successful run against a server that lists INBOX only
C13_Witness ==
  /\ Succeeded
  /\ ListedWithoutAlias
  /\ mailboxes = <<Line(Line_Inbox)>>
  /\ ~out[1].trash_cleared

(***************************************************************************)
(* C14: when a trash folder was resolved, the commands after LIST are, in  *)
(* this order and once each, SELECT, STORE 1:* +FLAGS \Deleted and         *)
(* EXPUNGE, cut short only by a failure, and then LOGOUT; trash_cleared is *)
(* TRUE only once that EXPUNGE was answered, and a success response of     *)
(* such a run reports trash_cleared = TRUE, whatever the folder held.      *)
(***************************************************************************)
TrashResolved ==
  /\ \E k \in 1..Len(cmds) : cmds[k].name = "LIST" /\ cmds[k].res \in {"OK", "NO"}
  /\ trash_folder.found
  /\ trash_folder.name # <<>>

PurgeCommands == <<"SELECT", "STORE", "EXPUNGE">>

C14_PurgeSequenceThenCleared ==
  /\ trash_cleared =>
       /\ TrashResolved
       /\ Len(cmds) >= ListPosition + 3
       /\ cmds[ListPosition + 1].res = "OK"
       /\ cmds[ListPosition + 3].name = "EXPUNGE"
       /\ cmds[ListPosition + 3].res \in {"OK", "NO"}
  /\ TrashResolved =>
       /\ \A j \in (ListPosition + 1)..Len(cmds) :
            \/ j = Len(cmds) /\ cmds[j].name = "LOGOUT"
            \/ /\ j <= ListPosition + 3
               /\ cmds[j].name = PurgeCommands[j - ListPosition]
               /\ cmds[j].wild = (j = ListPosition + 2)
       /\ Succeeded => (out[1].trash_cleared /\ Len(cmds) = ListPosition + 4)

\* a successful run that resolved "deleted items" and found the folder empty
C14_Witness ==
  /\ Succeeded
  /\ out[1].trash_cleared
  /\ trash_folder.name = Lower(TRASH_FOLDERS[2])
  /\ trash = 0
  /\ ~trashFlagged

(***************************************************************************)
(* C15: the commands of a run follow one linear order: connect, login,     *)
(* select INBOX, search ALL, then fetch and store of each target           *)
(* identifier in turn, then the INBOX expunge (when there are targets, and *)
(* only after the store of the last one), then LIST and the trash purge,   *)
(* then logout, which alone may cut the order short.  No fetch or          *)
(* single-identifier store comes before the search or after the INBOX      *)
(* expunge, and LIST never precedes the INBOX expunge.                     *)
(***************************************************************************)
Opening == <<"CONNECT", "LOGIN", "SELECT", "SEARCH">>
LoopEnd == Len(Opening) + 2 * Len(target_ids)
ListOrdinal == LoopEnd + (IF target_ids # <<>> THEN 2 ELSE 1)

InOrder(k) ==
  IF k <= Len(Opening) THEN cmds[k].name = Opening[k] /\ ~cmds[k].wild
  ELSE IF k <= LoopEnd
    THEN /\ cmds[k].name = (IF (k - Len(Opening)) % 2 = 1 THEN "FETCH" ELSE "STORE")
         /\ cmds[k].id = target_ids[(k - Len(Opening) + 1) \div 2]
         /\ ~cmds[k].wild
  ELSE IF k < ListOrdinal THEN cmds[k].name = "EXPUNGE"
  ELSE IF k = ListOrdinal THEN cmds[k].name = "LIST"
  ELSE /\ cmds[k].name \in {"SELECT", "EXPUNGE"} \/ cmds[k].wild
       /\ cmds[k].name \notin {"FETCH", "SEARCH", "LOGIN", "LIST"}

C15_FixedCommandOrder ==
  /\ \A k \in 1..Len(cmds) :
       \/ InOrder(k)
       \/ k = Len(cmds) /\ k > 1 /\ cmds[k].name = "LOGOUT"
  /\ \A k \in 1..(Len(cmds) - 1) : cmds[k].name # "LOGOUT"
  /\ Returned /\ Connected => cmds[Len(cmds)].name = "LOGOUT"

\* a complete run over two target identifiers and a resolved trash folder
C15_Witness ==
  /\ Succeeded
  /\ AllAnsweredOK
  /\ Len(target_ids) = 2
  /\ Len(cmds) = ListOrdinal + 4
  /\ out[1].trash_cleared

(***************************************************************************)
(* C16: _find_trash_folder returns the extracted name of the first listing *)
(* line whose extracted name is an alias, case-insensitively, the          *)
(* extracted name being the text inside the last pair of quote marks when  *)
(* the line has quotes and its last whitespace-delimited token otherwise;  *)
(* and a folder whose own name stands unquoted at the end of its line is   *)
(* found from that last token.                                             *)
(***************************************************************************)
QuoteMarks(line) == {j \in 1..Len(line) : line[j] = Quote}
LastToken(line) == Tokens(line)[Len(Tokens(line))]

ExtractedName(line) ==
  IF Cardinality(QuoteMarks(line)) >= 2
  THEN LET close == CHOOSE b \in QuoteMarks(line) : \A j \in QuoteMarks(line) : j <= b
           open == CHOOSE a \in QuoteMarks(line) \ {close} :
                     \A j \in QuoteMarks(line) \ {close} : j <= a
       IN Name(SubSeq(line, open + 1, close - 1))
  ELSE IF Tokens(line) # <<>> THEN Name(StripQuotes(LastToken(line)))
  ELSE NoName

MatchesAlias(entry) ==
  /\ entry.has_line
  /\ ExtractedName(entry.line).found
  /\ Lower(ExtractedName(entry.line).name) \in LoweredAliases

\* the folder's own name is the last token of the line and carries no quote
UnquotedAlias(entry) ==
  /\ entry.has_line
  /\ Tokens(entry.line) # <<>>
  /\ QuoteMarks(LastToken(entry.line)) = {}
  /\ Lower(LastToken(entry.line)) \in LoweredAliases

ListAnswered ==
  \E k \in 1..Len(cmds) : cmds[k].name = "LIST" /\ cmds[k].res \in {"OK", "NO"}

FirstMatchReturned ==
  ListAnswered =>
    \/ /\ ~trash_folder.found
       /\ \A k \in 1..Len(mailboxes) : ~MatchesAlias(mailboxes[k])
    \/ \E k \in 1..Len(mailboxes) :
         /\ MatchesAlias(mailboxes[k])
         /\ \A j \in 1..(k - 1) : ~MatchesAlias(mailboxes[j])
         /\ trash_folder = ExtractedName(mailboxes[k].line)

C16_FirstMatchingNameResolved ==
  /\ FirstMatchReturned
  /\ ListAnswered =>
       \A k \in 1..Len(mailboxes) : UnquotedAlias(mailboxes[k]) => trash_folder.found

(***************************************************************************)
(* _extract_email on its own: multipart messages without headers whose     *)
(* sub-parts range over content type, Content-Disposition and charset.     *)
(* The payload of a part names its position, so that the part a body was   *)
(* taken from can be told from the body.                                   *)
(***************************************************************************)
OrdinalMarks == <<"1", "2", "3", "4", "5", "6", "7", "8", "9">>

PartKinds ==
  [ctype : {"text/plain", "text/html", "application/pdf"},
   disposition : BOOLEAN,
   charset : {"", "x-unknown"}]

MultipartMsg(kinds) ==
  [subject |-> AbsentHeader, from |-> AbsentHeader, date |-> AbsentHeader,
   multipart |-> TRUE,
   parts |-> <<Container>> \o
             [k \in 1..Len(kinds) |->
                Part(kinds[k].ctype, kinds[k].disposition, kinds[k].charset,
                     <<OrdinalMarks[k], BadByte>>)]]

MultipartMessages ==
  {MultipartMsg(kinds) : kinds \in UNION {[1..n -> PartKinds] : n \in 0..MaxParts}}

InitBody ==
  /\ pc = "extract"
  /\ served \in {{msg} : msg \in MultipartMessages \cup {PlainMsg}}
  /\ tool_parameters = NoFields
  /\ creds = NoFields
  /\ config = NoConfig
  /\ inbox0 = {}
  /\ inbox = {}
  /\ flagged = {}
  /\ trash = 0
  /\ trashFlagged = FALSE
  /\ selected = ""
  /\ faultBudget = 0
  /\ faults = 0
  /\ state = "NONE"
  /\ mail_ids = <<>>
  /\ target_ids = <<>>
  /\ idx = 0
  /\ emails = <<>>
  /\ record_ids = <<>>
  /\ deleted_count = 0
  /\ mailboxes = <<>>
  /\ trash_folder = NoName
  /\ trash_cleared = FALSE
  /\ exc = ""
  /\ cmds = <<>>
  /\ out = <<>>

\* line 116: emails.append(self._extract_email(msg))
ExtractEmail ==
  /\ pc = "extract"
  /\ \E msg \in served :
       LET r == extract_email(msg)
       IN IF r.ok
          THEN emails' = Append(emails, r.rec) /\ exc' = exc
          ELSE emails' = emails /\ exc' = "unknown encoding"
  /\ pc' = "done"
  /\ UNCHANGED <<inputVars, serverVars, config, faults, state, mail_ids, target_ids,
                 idx, record_ids, deleted_count, mailboxes, trash_folder,
                 trash_cleared, cmds, out>>

NextBody == ExtractEmail

SpecBody == InitBody /\ [][NextBody]_vars

(***************************************************************************)
(* C17: for a multipart message the body is the content of the first       *)
(* text/plain part without Content-Disposition if there is one, otherwise  *)
(* the content of the first text/html part without Content-Disposition if  *)
(* there is one, otherwise the empty string.                               *)
(***************************************************************************)
TheMessage == CHOOSE msg \in served : TRUE

EligibleParts(msg, ctype) ==
  {k \in 1..Len(msg.parts) : msg.parts[k].ctype = ctype /\ ~msg.parts[k].disposition}

Earliest(S) == CHOOSE k \in S : \A j \in S : k <= j

\* the text a part holds, undecodable bytes left out
Content(part) == IF part.has_payload THEN DropBad(part.payload) ELSE <<>>

ExpectedBody(msg) ==
  IF EligibleParts(msg, "text/plain") # {}
  THEN Content(msg.parts[Earliest(EligibleParts(msg, "text/plain"))])
  ELSE IF EligibleParts(msg, "text/html") # {}
  THEN Content(msg.parts[Earliest(EligibleParts(msg, "text/html"))])
  ELSE <<>>

C17_BodySelectionPriority ==
  (pc = "done" /\ TheMessage.multipart) =>
    /\ exc = ""
    /\ Len(emails) = 1
    /\ emails[1].body = ExpectedBody(TheMessage)

(***************************************************************************)
(* C18: STORE 1:* +FLAGS \Deleted never reaches the server while INBOX is  *)
(* the selected mailbox: it is sent only directly after a SELECT of the    *)
(* resolved trash folder that was answered OK, so the INBOX messages       *)
(* flagged or expunged are at most those stored one by one, also when the  *)
(* SELECT of the trash folder fails.                                       *)
(***************************************************************************)
StoredSingly ==
  {cmds[j].id : j \in {h \in 1..Len(cmds) : cmds[h].name = "STORE" /\ ~cmds[h].wild}}

C18_WildcardStoreOnlyInTrash ==
  /\ \A k \in 1..Len(cmds) :
       cmds[k].wild =>
         /\ cmds[k].box = "TRASH"
         /\ k > ListPosition + 1
         /\ cmds[k - 1].name = "SELECT"
         /\ cmds[k - 1].res = "OK"
  /\ flagged \subseteq StoredSingly
  /\ (inbox0 \ inbox) \subseteq StoredSingly

\* the wildcard store was sent and answered, and the older INBOX messages
\* are still there
C18_Witness ==
  /\ Succeeded
  /\ \E k \in 1..Len(cmds) : cmds[k].wild /\ cmds[k].res = "OK"
  /\ Cardinality(inbox0) = 3
  /\ Cardinality(inbox) = 2
  /\ flagged = {}

(***************************************************************************)
(* C19: in every reachable state, the INBOX messages the run has flagged   *)
(* or removed are among the newest min(K, M) messages of the INBOX; every  *)
(* older message stays unflagged and in place, also when the run fails     *)
(* within the fetch/store loop.                                            *)
(***************************************************************************)
Newest == {a \in inbox0 : Cardinality({b \in inbox0 : b > a}) < K}

C19_OnlyTargetsFlagged ==
  /\ flagged \subseteq Newest
  /\ (inbox0 \ inbox) \subseteq Newest
  /\ \A k \in 1..Len(cmds) :
       (cmds[k].name = "STORE" /\ ~cmds[k].wild /\ cmds[k].res = "OK") =>
         cmds[k].id \in Newest

\* three messages, two targets: the newest was flagged, then the fetch of
\* the second failed
C19_Witness ==
  /\ Failed
  /\ exc = "fetch failed"
  /\ M = 3
  /\ K = 2
  /\ flagged = {3}
  /\ inbox = inbox0

====
